---- MODULE Spec2Model ----
(***************************************************************************)
(* Isolation: the board state (board.py) and the adversarial search        *)
(* (ai.py).  A Board object is a record of its attributes; an (x, y)       *)
(* tuple is <<x, y>>, Python's None is the empty tuple <<>> and the        *)
(* winner False is 0.                                                      *)
(***************************************************************************)
EXTENDS Integers, Sequences, FiniteSets, TLC

\* Largest grid area (rows * columns) of the boards explored.
MaxCells == 6
\* Largest argument of gen_random_blocked_boxes explored.
MaxBlocked == 2
\* Largest search depth explored.
MaxDepth == 3
\* Largest grid area of the boards on which the first placements are explored.
MaxPlaceCells == 9
\* Rows and columns of the large board on which the heuristics are evaluated.
LargeSide == 100
\* Largest number of moves made on the boards a board is compared with.
MaxEqMoves == 2

PLAYER1 == 1
PLAYER2 == 2
BOX_CLEAR == 4
BOX_BLOCK == 8
BOX_BLOCKED_MASK == 16
MAX_SCORE == 10000
\* float("inf"): above every score the heuristics of these boards produce.
Inf == 1000000
None == <<>>

\* game is the Board object and call the last operation on it; moves_made counts the
\* moves make_move has accepted on game, and last_dest holds, by player, the
\* destination of that player's most recent accepted move (None before its first).
VARIABLES game, call, moves_made, last_dest

vars == <<game, call, moves_made, last_dest>>

Players == {PLAYER1, PLAYER2}

\* ------------------------------------------------------------------ board.py

\* x | BOX_BLOCKED_MASK
OrMask(x) == IF (x \div BOX_BLOCKED_MASK) % 2 = 1 THEN x ELSE x + BOX_BLOCKED_MASK

\* (x & BOX_BLOCKED_MASK) == BOX_BLOCKED_MASK
MaskSet(x) == (x \div BOX_BLOCKED_MASK) % 2 = 1

clear_board(rows, columns) ==
    IF rows * columns > 0 THEN [i \in 1..(rows * columns) |-> BOX_CLEAR] ELSE <<>>

\* Board.__init__: the attributes of the object (its __dict__).
Board(rows, columns) ==
    [rows |-> rows, columns |-> columns,
     board |-> clear_board(rows, columns),
     active_player |-> PLAYER1, inactive_player |-> PLAYER2,
     players_position |-> [p \in Players |-> None]]

\* The comparison leaving out the rows and columns attributes.
BoardEq_without_dimensions(a, b) ==
    /\ a.board = b.board
    /\ a.active_player = b.active_player
    /\ a.inactive_player = b.inactive_player
    /\ a.players_position = b.players_position

\* Board.__eq__: self.__dict__ == other.__dict__
BoardEq(a, b) ==
    /\ a.rows = b.rows
    /\ a.columns = b.columns
    /\ a.board = b.board
    /\ a.active_player = b.active_player
    /\ a.inactive_player = b.inactive_player
    /\ a.players_position = b.players_position

player_pos(b, player) == b.players_position[player]

\* The flat list is 0-based in the source and 1-based here.
offset(b, x, y) == x + y * b.columns

box_blocked(b, x, y) == MaskSet(b.board[offset(b, x, y) + 1])

block_box(b, x, y, board_state) ==
    [b EXCEPT !.board[offset(b, x, y) + 1] = OrMask(board_state)]

RECURSIVE free_boxes_from(_, _)
\* The two nested loops of get_free_boxes, from flat index i on (row-major).
free_boxes_from(b, i) ==
    IF i >= b.rows * b.columns \/ b.rows <= 0 \/ b.columns <= 0 THEN <<>>
    ELSE LET x == i % b.columns
             y == i \div b.columns
         IN  IF ~box_blocked(b, x, y)
             THEN <<<<x, y>>>> \o free_boxes_from(b, i + 1)
             ELSE free_boxes_from(b, i + 1)

get_free_boxes(b) == free_boxes_from(b, 0)

dirs_deltas ==
    << <<-1, -1>>, <<0, -1>>, <<1, -1>>, <<1, 0>>,
       <<1, 1>>, <<0, 1>>, <<-1, 1>>, <<-1, 0>> >>

RECURSIVE walk_ray_append_first(_, _, _, _, _)
\* The ray walk appending the next cell before testing whether it is blocked.
walk_ray_append_first(b, x, y, dx, dy) ==
    IF (0 <= x + dx /\ x + dx < b.columns) /\ (0 <= y + dy /\ y + dy < b.rows)
    THEN IF box_blocked(b, x + dx, y + dy)
         THEN <<<<x + dx, y + dy>>>>
         ELSE <<<<x + dx, y + dy>>>> \o walk_ray_append_first(b, x + dx, y + dy, dx, dy)
    ELSE <<>>

RECURSIVE walk_ray_skip(_, _, _, _, _)
\* The ray walk going on past a blocked cell instead of breaking.
walk_ray_skip(b, x, y, dx, dy) ==
    IF (0 <= x + dx /\ x + dx < b.columns) /\ (0 <= y + dy /\ y + dy < b.rows)
    THEN IF box_blocked(b, x + dx, y + dy)
         THEN walk_ray_skip(b, x + dx, y + dy, dx, dy)
         ELSE <<<<x + dx, y + dy>>>> \o walk_ray_skip(b, x + dx, y + dy, dx, dy)
    ELSE <<>>

RECURSIVE walk_ray(_, _, _, _, _)
\* The while loop of get_legal_moves for one directional delta, from (x, y).
walk_ray(b, x, y, dx, dy) ==
    IF (0 <= x + dx /\ x + dx < b.columns) /\ (0 <= y + dy /\ y + dy < b.rows)
    THEN IF box_blocked(b, x + dx, y + dy)
         THEN <<>>
         ELSE <<<<x + dx, y + dy>>>> \o walk_ray(b, x + dx, y + dy, dx, dy)
    ELSE <<>>

RECURSIVE rays_from(_, _, _)
\* The for loop over dirs_deltas, from the i-th delta on.
rays_from(b, loc, i) ==
    IF i > Len(dirs_deltas) THEN <<>>
    ELSE walk_ray(b, loc[1], loc[2], dirs_deltas[i][1], dirs_deltas[i][2])
         \o rays_from(b, loc, i + 1)

\* get_legal_moves casting the rays of a player without a position from the
\* position of the other player.
get_legal_moves_from_other(b, player) ==
    LET p == IF player = 0 THEN b.active_player ELSE player
        loc == b.players_position[p]
        other == b.players_position[IF p = PLAYER1 THEN PLAYER2 ELSE PLAYER1]
    IN  IF loc # None THEN rays_from(b, loc, 1)
        ELSE IF other # None THEN rays_from(b, other, 1)
        ELSE get_free_boxes(b)

\* get_legal_moves taking the position of the active player whoever is named.
get_legal_moves_active_only(b, player) ==
    LET loc == b.players_position[b.active_player]
    IN  IF loc = None THEN get_free_boxes(b)
        ELSE rays_from(b, loc, 1)

\* get_legal_moves(player); player 0 stands for the default argument None.
get_legal_moves(b, player) ==
    LET loc == IF player = 0 THEN b.players_position[b.active_player]
               ELSE b.players_position[player]
    IN  IF loc = None THEN get_free_boxes(b)
        ELSE rays_from(b, loc, 1)

\* The player switch assigning the active player only.
switch_player_active_only(b) ==
    IF b.active_player = PLAYER1
    THEN [b EXCEPT !.active_player = PLAYER2]
    ELSE [b EXCEPT !.active_player = PLAYER1]

\* The player switch at the end of make_move and make_move_copy.
switch_player(b) ==
    IF b.active_player = PLAYER1
    THEN [b EXCEPT !.active_player = PLAYER2, !.inactive_player = PLAYER1]
    ELSE [b EXCEPT !.active_player = PLAYER1, !.inactive_player = PLAYER2]

\* make_move without the assertion on the destination.
make_move_unchecked(b, x, y) ==
    LET moved == [b EXCEPT !.players_position[b.active_player] = <<x, y>>]
        blocked == block_box(moved, x, y, b.active_player)
    IN  [self |-> switch_player(blocked), exc |-> "none"]

\* make_move switching the players before it records and blocks the destination.
make_move_switch_first(b, x, y) ==
    IF box_blocked(b, x, y) THEN [self |-> b, exc |-> "AssertionError"]
    ELSE LET switched == switch_player(b)
             moved == [switched EXCEPT !.players_position[switched.active_player] = <<x, y>>]
         IN  [self |-> block_box(moved, x, y, switched.active_player), exc |-> "none"]

\* make_move clearing the cell the player leaves.
make_move_vacate(b, x, y) ==
    IF box_blocked(b, x, y) THEN [self |-> b, exc |-> "AssertionError"]
    ELSE LET old == b.players_position[b.active_player]
             vacated == IF old = None THEN b
                        ELSE [b EXCEPT !.board[offset(b, old[1], old[2]) + 1] = BOX_CLEAR]
             moved == [vacated EXCEPT !.players_position[b.active_player] = <<x, y>>]
             blocked == block_box(moved, x, y, b.active_player)
         IN  [self |-> switch_player(blocked), exc |-> "none"]

\* make_move asserting that the destination is one of get_legal_moves().
make_move_legal_only(b, x, y) ==
    IF \/ box_blocked(b, x, y)
       \/ ~\E i \in 1..Len(get_legal_moves(b, 0)) : get_legal_moves(b, 0)[i] = <<x, y>>
    THEN [self |-> b, exc |-> "AssertionError"]
    ELSE LET moved == [b EXCEPT !.players_position[b.active_player] = <<x, y>>]
             blocked == block_box(moved, x, y, b.active_player)
         IN  [self |-> switch_player(blocked), exc |-> "none"]

\* make_move: the object after the call, and the exception raised if any.
make_move(b, x, y) ==
    IF box_blocked(b, x, y) THEN [self |-> b, exc |-> "AssertionError"]
    ELSE LET moved == [b EXCEPT !.players_position[b.active_player] = <<x, y>>]
             blocked == block_box(moved, x, y, b.active_player)
         IN  [self |-> switch_player(blocked), exc |-> "none"]

\* pickle.loads(pickle.dumps(self)): a new object with equal attributes.
pickle_copy(b) ==
    [rows |-> b.rows, columns |-> b.columns,
     board |-> [i \in DOMAIN b.board |-> b.board[i]],
     active_player |-> b.active_player, inactive_player |-> b.inactive_player,
     players_position |-> [p \in DOMAIN b.players_position |-> b.players_position[p]]]

\* make_move_copy making the move on self instead of on the copy.
make_move_copy_in_place(b, x, y) ==
    IF box_blocked(b, x, y)
    THEN [self |-> b, ret |-> None, exc |-> "AssertionError"]
    ELSE LET moved == [b EXCEPT !.players_position[b.active_player] = <<x, y>>]
             blocked == block_box(moved, x, y, b.active_player)
         IN  [self |-> switch_player(blocked), ret |-> switch_player(blocked),
              exc |-> "none"]

\* make_move_copy leaving out the player switch.
make_move_copy_no_switch(b, x, y) ==
    LET board_copy == pickle_copy(b)
    IN  IF box_blocked(board_copy, x, y)
        THEN [self |-> b, ret |-> None, exc |-> "AssertionError"]
        ELSE LET moved == [board_copy EXCEPT
                             !.players_position[board_copy.active_player] = <<x, y>>]
             IN  [self |-> b, ret |-> block_box(moved, x, y, board_copy.active_player),
                  exc |-> "none"]

\* make_move_copy: the original after the call, the board returned, the exception.
make_move_copy(b, x, y) ==
    LET board_copy == pickle_copy(b)
    IN  IF box_blocked(board_copy, x, y)
        THEN [self |-> b, ret |-> None, exc |-> "AssertionError"]
        ELSE LET moved == [board_copy EXCEPT
                             !.players_position[board_copy.active_player] = <<x, y>>]
                 blocked == block_box(moved, x, y, board_copy.active_player)
             IN  [self |-> b, ret |-> switch_player(blocked), exc |-> "none"]

\* is_game_over checking the inactive player first.
is_game_over_inactive_first(b) ==
    IF get_legal_moves(b, b.inactive_player) = <<>> THEN b.active_player
    ELSE IF get_legal_moves(b, b.active_player) = <<>> THEN b.inactive_player
    ELSE 0

\* is_game_over: the winning player, or 0 for False.
is_game_over(b) ==
    IF get_legal_moves(b, b.active_player) = <<>> THEN b.inactive_player
    ELSE IF get_legal_moves(b, b.inactive_player) = <<>> THEN b.active_player
    ELSE 0

RECURSIVE block_positions(_, _, _)
\* The for loop of gen_random_blocked_boxes over the drawn positions.
block_positions(b, picks, i) ==
    IF i > Len(picks) THEN b
    ELSE block_positions([b EXCEPT !.board[picks[i] + 1] = OrMask(BOX_BLOCK)], picks, i + 1)

\* ------------------------------------------------------------------ ai.py

manhattan_distance(x1, y1, x2, y2) ==
    (IF x1 >= x2 THEN x1 - x2 ELSE x2 - x1) + (IF y1 >= y2 THEN y1 - y2 ELSE y2 - y1)

\* The value of an expression evaluated once: Only({e(v) : v \in {expr}}).
Only(S) == CHOOSE x \in S : TRUE

\* A value or the exception raised instead of it.
Val(v) == [exc |-> "none", val |-> v]
Raise(e) == [exc |-> e, val |-> 0]

\* int((1.0 / dist) * total): equal to total // dist for every total, dist < 40,
\* and for the area of the large board with every dist < 250.
inv_scaled(dist, total) == total \div dist

\* Unpacking *board.player_pos(player) of a player without a position is a TypeError.
inv_dist_to_centre(b, player) ==
    LET total == b.columns * b.rows
        cx == b.columns \div 2
        cy == b.rows \div 2
        pos == player_pos(b, player)
    IN  IF pos = None THEN Raise("TypeError")
        ELSE LET dist == manhattan_distance(pos[1], pos[2], cx, cy)
             IN  IF dist <= 0 THEN Val(total + 5) ELSE Val(inv_scaled(dist, total))

\* The terminal branch with the two scores exchanged.
terminal_score_swapped(winner, player) ==
    IF winner = player THEN -MAX_SCORE ELSE MAX_SCORE

\* The terminal branch shared by the four scoring functions.
terminal_score(winner, player) ==
    IF winner = player THEN MAX_SCORE ELSE -MAX_SCORE

score_func1(b, winner, player) ==
    IF winner # 0 THEN Val(terminal_score(winner, player))
    ELSE LET a_dist == inv_dist_to_centre(b, b.active_player)
             o_dist == inv_dist_to_centre(b, b.inactive_player)
         IN  IF a_dist.exc # "none" THEN a_dist
             ELSE IF o_dist.exc # "none" THEN o_dist
             ELSE Val(a_dist.val - o_dist.val)

score_func2(b, winner, player) ==
    IF winner # 0 THEN Val(terminal_score(winner, player))
    ELSE LET a_moves == Len(get_legal_moves(b, b.active_player))
             o_moves == Len(get_legal_moves(b, b.inactive_player))
         IN  Val(a_moves - o_moves)

score_func3(b, winner, player) ==
    IF winner # 0 THEN Val(terminal_score(winner, player))
    ELSE LET a == player_pos(b, b.active_player)
             o == player_pos(b, b.inactive_player)
         IN  IF a = None \/ o = None THEN Raise("TypeError")
             ELSE Val(manhattan_distance(a[1], a[2], o[1], o[2]))

score_func4(b, winner, player) ==
    IF winner # 0 THEN Val(terminal_score(winner, player))
    ELSE LET total == b.columns * b.rows
             a == player_pos(b, b.active_player)
             o == player_pos(b, b.inactive_player)
         IN  IF a = None \/ o = None THEN Raise("TypeError")
             ELSE LET dist == manhattan_distance(a[1], a[2], o[1], o[2])
                  IN  IF dist <= 0 THEN Val(total + 5) ELSE Val(inv_scaled(dist, total))

ScoreFuncs == 1..4

\* The function pointer score_func, by the N of score_funcN.
score_func(sf, b, winner, player) ==
    CASE sf = 1 -> score_func1(b, winner, player)
      [] sf = 2 -> score_func2(b, winner, player)
      [] sf = 3 -> score_func3(b, winner, player)
      [] OTHER  -> score_func4(b, winner, player)

\* What a search call leaves behind: the exception raised ("none" if it returned),
\* the (score, move) pair returned, the board object passed in as it is after the
\* call, whether every board of the recursion was left as it was passed in (kept)
\* and whether an alpha >= beta break was taken anywhere in the recursion (cut).
Returned(score, move, b, kept, cut) ==
    [exc |-> "none", score |-> score, move |-> move, board |-> b, kept |-> kept, cut |-> cut]
Raised(e, b, kept, cut) ==
    [exc |-> e, score |-> 0, move |-> None, board |-> b, kept |-> kept, cut |-> cut]

\* The sign taken as +1 whoever the active player is.
player_sign_positive(b, player) == 1

player_sign(b, player) == IF b.active_player = player THEN 1 ELSE -1

\* The leaf of negamax and abnegamax: the game is over or depth is 0.
leaf(b, winner, player, sf) ==
    LET s == score_func(sf, b, winner, player)
    IN  IF s.exc # "none" THEN Raised(s.exc, b, TRUE, FALSE)
        ELSE Returned(player_sign(b, player) * s.val, None, b, TRUE, FALSE)

RECURSIVE negamax(_, _, _, _)
RECURSIVE negamax_loop(_, _, _, _, _, _, _, _, _, _)
RECURSIVE abnegamax(_, _, _, _, _, _)
RECURSIVE abnegamax_loop(_, _, _, _, _, _, _, _, _, _, _, _, _)

RECURSIVE negamax_loop_keep_last(_, _, _, _, _, _, _, _, _, _)
\* The for loop of negamax keeping the last of several equally scored moves.
negamax_loop_keep_last(b0, b, moves, i, depth, player, sf, best_score, best_move, kept) ==
    IF i > Len(moves) THEN Returned(best_score, best_move, b, kept /\ b = b0, FALSE)
    ELSE LET move == moves[i]
             c == make_move_copy(b, move[1], move[2])
         IN  IF c.exc # "none" THEN Raised(c.exc, c.self, kept /\ c.self = b0, FALSE)
             ELSE Only({
                  LET current_score == -rec.score
                      better == current_score >= best_score
                  IN  IF rec.exc # "none"
                      THEN Raised(rec.exc, c.self, kept /\ rec.kept /\ c.self = b0, FALSE)
                      ELSE negamax_loop_keep_last(b0, c.self, moves, i + 1, depth, player, sf,
                                        IF better THEN current_score ELSE best_score,
                                        IF better THEN move ELSE best_move,
                                        kept /\ rec.kept)
                  : rec \in {negamax(c.ret, depth - 1, player, sf)} })

\* The for loop of negamax from the i-th legal move on; b0 is the board at entry.
negamax_loop(b0, b, moves, i, depth, player, sf, best_score, best_move, kept) ==
    IF i > Len(moves) THEN Returned(best_score, best_move, b, kept /\ b = b0, FALSE)
    ELSE LET move == moves[i]
             c == make_move_copy(b, move[1], move[2])
         IN  IF c.exc # "none" THEN Raised(c.exc, c.self, kept /\ c.self = b0, FALSE)
             ELSE Only({
                  LET current_score == -rec.score
                      better == current_score > best_score
                  IN  IF rec.exc # "none"
                      THEN Raised(rec.exc, c.self, kept /\ rec.kept /\ c.self = b0, FALSE)
                      ELSE negamax_loop(b0, c.self, moves, i + 1, depth, player, sf,
                                        IF better THEN current_score ELSE best_score,
                                        IF better THEN move ELSE best_move,
                                        kept /\ rec.kept)
                  : rec \in {negamax(c.ret, depth - 1, player, sf)} })

negamax(b, depth, player, sf) ==
    LET winner == is_game_over(b)
    IN  IF winner # 0 \/ depth = 0 THEN leaf(b, winner, player, sf)
        ELSE negamax_loop(b, b, get_legal_moves(b, 0), 1, depth, player, sf,
                          -Inf, None, TRUE)

\* The best-move update keeping the last of several equally scored moves.
ab_keep_best_last(current_score, move, best_score, best_move) ==
    IF current_score >= best_score THEN <<current_score, move>>
    ELSE <<best_score, best_move>>

\* The best-move update of abnegamax: the new (best_score, best_move).
ab_keep_best(current_score, move, best_score, best_move) ==
    IF current_score > best_score THEN <<current_score, move>>
    ELSE <<best_score, best_move>>

RECURSIVE abnegamax_loop_window_kept(_, _, _, _, _, _, _, _, _, _, _, _, _)
\* The for loop of abnegamax passing the child the window (-alpha, -beta) instead
\* of (-beta, -alpha).
abnegamax_loop_window_kept(b0, b, moves, i, depth, player, alpha, beta, sf, best_score, best_move, kept, cut) ==
    IF i > Len(moves) THEN Returned(best_score, best_move, b, kept /\ b = b0, cut)
    ELSE LET move == moves[i]
             c == make_move_copy(b, move[1], move[2])
         IN  IF c.exc # "none" THEN Raised(c.exc, c.self, kept /\ c.self = b0, cut)
             ELSE Only({
                  LET current_score == -rec.score
                      best == ab_keep_best(current_score, move, best_score, best_move)
                      new_score == best[1]
                      new_move == best[2]
                      new_alpha == IF current_score > alpha THEN current_score ELSE alpha
                  IN  IF rec.exc # "none"
                      THEN Raised(rec.exc, c.self, kept /\ rec.kept /\ c.self = b0,
                                  cut \/ rec.cut)
                      ELSE IF new_alpha >= beta
                      THEN Returned(new_score, new_move, c.self,
                                    kept /\ rec.kept /\ c.self = b0, TRUE)
                      ELSE abnegamax_loop_window_kept(b0, c.self, moves, i + 1, depth, player,
                                          new_alpha, beta, sf, new_score, new_move,
                                          kept /\ rec.kept, cut \/ rec.cut)
                  : rec \in {abnegamax(c.ret, depth - 1, player, -alpha, -beta, sf)} })

\* The for loop of abnegamax from the i-th legal move on; b0 is the board at entry.
abnegamax_loop(b0, b, moves, i, depth, player, alpha, beta, sf, best_score, best_move, kept, cut) ==
    IF i > Len(moves) THEN Returned(best_score, best_move, b, kept /\ b = b0, cut)
    ELSE LET move == moves[i]
             c == make_move_copy(b, move[1], move[2])
         IN  IF c.exc # "none" THEN Raised(c.exc, c.self, kept /\ c.self = b0, cut)
             ELSE Only({
                  LET current_score == -rec.score
                      best == ab_keep_best(current_score, move, best_score, best_move)
                      new_score == best[1]
                      new_move == best[2]
                      new_alpha == IF current_score > alpha THEN current_score ELSE alpha
                  IN  IF rec.exc # "none"
                      THEN Raised(rec.exc, c.self, kept /\ rec.kept /\ c.self = b0,
                                  cut \/ rec.cut)
                      ELSE IF new_alpha >= beta
                      THEN Returned(new_score, new_move, c.self,
                                    kept /\ rec.kept /\ c.self = b0, TRUE)
                      ELSE abnegamax_loop(b0, c.self, moves, i + 1, depth, player,
                                          new_alpha, beta, sf, new_score, new_move,
                                          kept /\ rec.kept, cut \/ rec.cut)
                  : rec \in {abnegamax(c.ret, depth - 1, player, -beta, -alpha, sf)} })

abnegamax(b, depth, player, alpha, beta, sf) ==
    LET winner == is_game_over(b)
    IN  IF winner # 0 \/ depth = 0 THEN leaf(b, winner, player, sf)
        ELSE abnegamax_loop(b, b, get_legal_moves(b, 0), 1, depth, player,
                            alpha, beta, sf, -Inf, None, TRUE, FALSE)

RECURSIVE power_loop_first_retry(_, _, _, _, _, _)
\* The retry loop breaking on a score >= -MAX_SCORE, that is at its first retry.
power_loop_first_retry(best, i_depth, player, alpha, beta, sf) ==
    IF i_depth < 1 THEN best
    ELSE Only({
         LET res == [r EXCEPT !.kept = r.kept /\ best.kept, !.cut = r.cut \/ best.cut]
         IN  IF r.exc # "none" THEN res
             ELSE IF r.score >= -MAX_SCORE THEN res
             ELSE power_loop_first_retry(res, i_depth - 1, player, alpha, beta, sf)
         : r \in {abnegamax(best.board, i_depth, player, alpha, beta, sf)} })

RECURSIVE power_loop_to_zero(_, _, _, _, _, _)
\* The retry loop running down to depth 0 instead of depth 1.
power_loop_to_zero(best, i_depth, player, alpha, beta, sf) ==
    IF i_depth < 0 THEN best
    ELSE Only({
         LET res == [r EXCEPT !.kept = r.kept /\ best.kept, !.cut = r.cut \/ best.cut]
         IN  IF r.exc # "none" THEN res
             ELSE IF r.score > -MAX_SCORE THEN res
             ELSE power_loop_to_zero(res, i_depth - 1, player, alpha, beta, sf)
         : r \in {abnegamax(best.board, i_depth, player, alpha, beta, sf)} })

RECURSIVE power_loop(_, _, _, _, _, _)
\* The retry loop of power_abnegamax from i_depth down to 1; best is the last result.
power_loop(best, i_depth, player, alpha, beta, sf) ==
    IF i_depth < 1 THEN best
    ELSE Only({
         LET res == [r EXCEPT !.kept = r.kept /\ best.kept, !.cut = r.cut \/ best.cut]
         IN  IF r.exc # "none" THEN res
             ELSE IF r.score > -MAX_SCORE THEN res
             ELSE power_loop(res, i_depth - 1, player, alpha, beta, sf)
         : r \in {abnegamax(best.board, i_depth, player, alpha, beta, sf)} })

power_abnegamax(b, depth, player, alpha, beta, sf) ==
    Only({ IF first.exc # "none" THEN first
           ELSE IF first.score <= -MAX_SCORE
           THEN power_loop(first, depth - 1, player, alpha, beta, sf)
           ELSE first
           : first \in {abnegamax(b, depth, player, alpha, beta, sf)} })

\* ------------------------------------------------------------------ actions

\* The last operation on the board: its name, arguments, the exception it raised,
\* what it returned and, for moves and searches, the board it was called on.
NoCall == [op |-> "init", args |-> <<>>, pre |-> None, ret |-> None, exc |-> "none"]

\* The (rows, columns) passed to Board: positive, zero and negative.
Dims == {rc \in (-1..MaxCells) \X (-1..MaxCells) : rc[1] * rc[2] <= MaxCells}

NoMoves == [p \in Players |-> None]

Init ==
    /\ \E rc \in Dims : game = Board(rc[1], rc[2])
    /\ call = NoCall
    /\ moves_made = 0
    /\ last_dest = NoMoves

\* game.gen_random_blocked_boxes(min, max) before play begins (main.py:28):
\* num = randint(min, max) positions are drawn, each with
\* randint(0, columns * rows - 1), which raises ValueError on a board without cells.
GenRandomBlockedBoxes ==
    \E min \in 0..MaxBlocked, max \in 0..MaxBlocked :
       /\ \A p \in Players : game.players_position[p] = None
       /\ min <= max
       /\ UNCHANGED <<moves_made, last_dest>>
       /\ \E num \in min..max :
            IF num > 0 /\ game.rows * game.columns <= 0
            THEN /\ game' = game
                 /\ call' = [op |-> "gen_random_blocked_boxes", args |-> <<min, max>>,
                             pre |-> None, ret |-> None, exc |-> "ValueError"]
            ELSE \E picks \in [1..num -> 0..(game.rows * game.columns - 1)] :
                    /\ game' = block_positions(game, picks, 1)
                    /\ call' = [op |-> "gen_random_blocked_boxes", args |-> <<min, max>>,
                                pre |-> None, ret |-> None, exc |-> "none"]

\* game.make_move(*move) for a move of get_legal_moves() (main.py:108, 121, 142-146).
\* The history of a make_move call by player p to destination m.
Accepted(exc, p, m) ==
    IF exc = "none"
    THEN moves_made' = moves_made + 1 /\ last_dest' = [last_dest EXCEPT ![p] = m]
    ELSE UNCHANGED <<moves_made, last_dest>>

MakeMove ==
    \E i \in 1..Len(get_legal_moves(game, 0)) :
       LET m == get_legal_moves(game, 0)[i]
           r == make_move(game, m[1], m[2])
       IN  /\ game' = r.self
           /\ call' = [op |-> "make_move", args |-> m, pre |-> game,
                       ret |-> None, exc |-> r.exc]
           /\ Accepted(r.exc, game.active_player, m)

\* board.make_move_copy(*move) for a move of get_legal_moves() (ai.py:207, board.py:290).
MakeMoveCopy ==
    \E i \in 1..Len(get_legal_moves(game, 0)) :
       LET m == get_legal_moves(game, 0)[i]
           r == make_move_copy(game, m[1], m[2])
       IN  /\ game' = r.self
           /\ call' = [op |-> "make_move_copy", args |-> m, pre |-> game,
                       ret |-> r.ret, exc |-> r.exc]
           /\ UNCHANGED <<moves_made, last_dest>>

\* The (alpha, beta) windows of the callers: main.py passes (-inf, inf).
Windows == {<<-Inf, Inf>>}

SearchOps == {"negamax", "abnegamax", "power_abnegamax"}

\* A search is called on the board as construction or a move left it, and the
\* move made next is made on the board as the search left it (main.py:101-108).
SearchCall(op, depth, player, alpha, beta, sf, r) ==
    /\ call.op \notin SearchOps
    /\ game' = r.board
    /\ call' = [op |-> op, args |-> <<depth, player, alpha, beta, sf>>, pre |-> game,
                ret |-> [score |-> r.score, move |-> r.move, kept |-> r.kept,
                         cut |-> r.cut],
                exc |-> r.exc]
    /\ UNCHANGED <<moves_made, last_dest>>

\* ai.AI.negamax(game, depth, player, score_func)
Negamax ==
    \E depth \in 0..MaxDepth, player \in Players, sf \in ScoreFuncs :
       SearchCall("negamax", depth, player, -Inf, Inf, sf,
                  negamax(game, depth, player, sf))

\* ai.AI.abnegamax(game, depth, player, alpha, beta, score_func)
Abnegamax ==
    \E depth \in 0..MaxDepth, player \in Players, w \in Windows, sf \in ScoreFuncs :
       SearchCall("abnegamax", depth, player, w[1], w[2], sf,
                  abnegamax(game, depth, player, w[1], w[2], sf))

\* ai.AI.power_abnegamax(game, depth, player, alpha, beta, score_func) (main.py:101, 114)
PowerAbnegamax ==
    \E depth \in 0..MaxDepth, player \in Players, w \in Windows, sf \in ScoreFuncs :
       SearchCall("power_abnegamax", depth, player, w[1], w[2], sf,
                  power_abnegamax(game, depth, player, w[1], w[2], sf))

\* The board interface: pre-blocking, moves in place and moves on a copy.
Next ==
    \/ GenRandomBlockedBoxes
    \/ MakeMove
    \/ MakeMoveCopy

Spec == Init /\ [][Next]_vars

\* A game: pre-blocking before play, then moves in place.
NextGame ==
    \/ GenRandomBlockedBoxes
    \/ MakeMove

\* A game in which the player to move makes a legal move whenever it has one
\* (main.py:90-146 loops until is_game_over).
SpecFairPlay == Init /\ [][NextGame]_vars /\ WF_vars(MakeMove)

\* The game loop of main.py: searches and moves on a board that is not pre-blocked.
NextSearch ==
    \/ MakeMove
    \/ Negamax
    \/ Abnegamax
    \/ PowerAbnegamax

SpecSearch == Init /\ [][NextSearch]_vars

\* The (x, y) of the cells of the grid.
GridCells(b) == {<<x, y>> \in (0..(b.columns - 1)) \X (0..(b.rows - 1)) : TRUE}

\* game.make_move(x, y) for any cell of the grid, legal for the active player or not.
MakeMoveAt ==
    \E c \in GridCells(game) :
       LET r == make_move(game, c[1], c[2])
       IN  /\ game' = r.self
           /\ call' = [op |-> "make_move", args |-> c, pre |-> game,
                       ret |-> None, exc |-> r.exc]
           /\ Accepted(r.exc, game.active_player, c)

\* game.make_move_copy(x, y) for any cell of the grid.
MakeMoveCopyAt ==
    \E c \in GridCells(game) :
       LET r == make_move_copy(game, c[1], c[2])
       IN  /\ game' = r.self
           /\ call' = [op |-> "make_move_copy", args |-> c, pre |-> game,
                       ret |-> r.ret, exc |-> r.exc]
           /\ UNCHANGED <<moves_made, last_dest>>

\* The two move operations as any caller may use them.
NextAnyCell ==
    \/ MakeMoveAt
    \/ MakeMoveCopyAt

SpecAnyCell == Init /\ [][NextAnyCell]_vars

\* The centre (columns // 2, rows // 2) of a grid and the 8 cells around it.
NearCentre(rows, columns) ==
    {<<(columns \div 2) + dx, (rows \div 2) + dy>> : dx \in -1..1, dy \in -1..1}

\* The board after the first two moves of a game, to c1 and then to c2.
Opened(b, c1, c2) == make_move(make_move(b, c1[1], c1[2]).self, c2[1], c2[2]).self

\* The boards scored: a fresh board within MaxCells, to be pre-blocked and played
\* on, or the large board with the two players placed at or around its centre.
InitScore ==
    \/ Init
    \/ \E c1 \in NearCentre(LargeSide, LargeSide), c2 \in NearCentre(LargeSide, LargeSide) :
          /\ c1 # c2
          /\ game = Opened(Board(LargeSide, LargeSide), c1, c2)
          /\ call = NoCall
          /\ moves_made = 2
          /\ last_dest = [p \in Players |-> IF p = PLAYER1 THEN c1 ELSE c2]

\* A heuristic leaves the board as it is: pre-blocking and play go on from the
\* states before it was called.
Unscored == call.op # "score_func"

\* game.gen_random_blocked_boxes(min, max) before play begins.
PreBlock ==
    /\ Unscored
    /\ GenRandomBlockedBoxes

\* game.make_move(*move) on the boards within MaxCells.
MakeMoveSmall ==
    /\ Unscored
    /\ game.rows * game.columns <= MaxCells
    /\ MakeMove

\* score_func(board, winner, player) for each of the four heuristics: winner is
\* False (0) or a player, as is_game_over returns it to the searches.
ScoreCall ==
    \E sf \in ScoreFuncs, winner \in {0} \cup Players, player \in Players :
       LET s == score_func(sf, game, winner, player)
       IN  /\ Unscored
           /\ call' = [op |-> "score_func", args |-> <<sf, winner, player>>, pre |-> game,
                       ret |-> IF s.exc = "none" THEN s.val ELSE None, exc |-> s.exc]
           /\ UNCHANGED <<game, moves_made, last_dest>>

\* The heuristics applied to boards reached by pre-blocking and moves.
NextScore ==
    \/ PreBlock
    \/ MakeMoveSmall
    \/ ScoreCall

SpecScore == InitScore /\ [][NextScore]_vars

\* A game played out by alternating legal moves on a board that is not pre-blocked.
NextPlay == MakeMove

SpecPlay == Init /\ [][NextPlay]_vars

PlaceDims ==
    {rc \in (0..MaxPlaceCells) \X (0..MaxPlaceCells) : rc[1] * rc[2] <= MaxPlaceCells}

InitPlacement ==
    /\ \E rc \in PlaceDims : game = Board(rc[1], rc[2])
    /\ call = NoCall
    /\ moves_made = 0
    /\ last_dest = NoMoves

\* game.make_move(*move) by a player that has no position yet: its placement.
PlaceMove ==
    /\ player_pos(game, game.active_player) = None
    /\ MakeMove

\* The opening of a game: pre-blocking and the placement of the two players.
NextPlacement ==
    \/ GenRandomBlockedBoxes
    \/ PlaceMove

SpecPlacement == InitPlacement /\ [][NextPlacement]_vars

\* The cells of the sequence moves.
Cells(moves) == {moves[i] : i \in 1..Len(moves)}

RECURSIVE played_boards(_, _)
\* The boards reached from the boards of S by at most n moves of get_legal_moves().
played_boards(S, n) ==
    IF n <= 0 THEN S
    ELSE played_boards(
           S \cup UNION {{make_move(b, m[1], m[2]).self : m \in Cells(get_legal_moves(b, 0))}
                         : b \in S},
           n - 1)

\* The boards a board is compared with: constructed with any of the dimensions
\* and played on for at most MaxEqMoves moves.
OtherBoards == played_boards({Board(rc[1], rc[2]) : rc \in Dims}, MaxEqMoves)

\* A comparison leaves the board as it is: play goes on from the states before it.
Uncompared == call.op # "__eq__"

\* game.make_move(*move) on a board that is then compared.
MakeMoveCompared ==
    /\ Uncompared
    /\ MakeMove

\* game == other (Board.__eq__) for another Board object.
EqCall ==
    \E other \in OtherBoards :
       /\ Uncompared
       /\ call' = [op |-> "__eq__", args |-> <<other>>, pre |-> game,
                   ret |-> BoardEq(game, other), exc |-> "none"]
       /\ UNCHANGED <<game, moves_made, last_dest>>

\* Boards reached by play compared with other boards reached by play.
NextEq ==
    \/ MakeMoveCompared
    \/ EqCall

SpecEq == Init /\ [][NextEq]_vars

\* ------------------------------------------------------------------ properties

IsSearch(op) == call.op = op /\ call.pre # None
Depth == call.args[1]
Player == call.args[2]
Alpha == call.args[3]
Beta == call.args[4]
Sf == call.args[5]
WidestWindow == Alpha = -Inf /\ Beta = Inf

\* The (score, move) pair returned, or the exception raised.
Outcome(r) == IF r.exc = "none" THEN <<"none", r.score, r.move>> ELSE <<r.exc>>

\* The outcome of the call recorded in call.
CallOutcome == IF call.exc = "none" THEN <<"none", call.ret.score, call.ret.move>>
               ELSE <<call.exc>>

\* C1: abnegamax called with the widest window ends as negamax does on the same
\* board, depth, player and heuristic (the same (score, move) pair, or the same
\* exception) whenever no alpha >= beta break was taken during the search.
C1_AbnegamaxEqualsNegamaxWithoutCutoff ==
    (IsSearch("abnegamax") /\ WidestWindow /\ ~call.ret.cut)
        => CallOutcome = Outcome(negamax(call.pre, Depth, Player, Sf))

\* An abnegamax call of depth >= 2 that returned a move without any cutoff, on a
\* board where the mover and the reply both had a choice of at least two moves.
C1_Witness ==
    /\ IsSearch("abnegamax") /\ WidestWindow /\ ~call.ret.cut
    /\ call.exc = "none" /\ Depth >= 2
    /\ Len(get_legal_moves(call.pre, 0)) >= 2
    /\ call.ret.move # None
    /\ LET c == make_move_copy(call.pre, call.ret.move[1], call.ret.move[2]).ret
       IN  is_game_over(c) = 0 /\ Len(get_legal_moves(c, 0)) >= 2

\* The root call of a negamax or abnegamax search that returned at its leaf branch.
ReturnedAtLeaf ==
    /\ (IsSearch("negamax") \/ IsSearch("abnegamax"))
    /\ call.exc = "none"
    /\ (is_game_over(call.pre) # 0 \/ Depth = 0)

\* C2: a negamax or abnegamax call that returns at a leaf (game over or depth 0)
\* returns the evaluation of the leaf from the side of the leaf's own active
\* player: the heuristic's value for the board as scored for its active player,
\* whether or not that player is the `player` argument.
C2_LeafScoreIsActivePlayersView ==
    ReturnedAtLeaf
        => call.ret.score
             = score_func(Sf, call.pre, is_game_over(call.pre), call.pre.active_player).val

\* The abnegamax call power_abnegamax makes at depth k on the board it was given.
AbAt(k) == abnegamax(call.pre, k, Player, Alpha, Beta, Sf)

RECURSIVE AbOutcomes(_)
\* The outcomes of the abnegamax calls at the depths 1..k, by depth.
AbOutcomes(k) == IF k <= 0 THEN <<>> ELSE Append(AbOutcomes(k - 1), Outcome(AbAt(k)))

NonLosing(o) == o[1] = "none" /\ o[2] > -MAX_SCORE
Losing(o) == o[1] = "none" /\ o[2] <= -MAX_SCORE

\* The depths below the last of tab at which abnegamax scores above -MAX_SCORE.
NonLosingRetries(tab) == {k \in 1..(Len(tab) - 1) : NonLosing(tab[k])}

Greatest(S) == CHOOSE k \in S : \A j \in S : j <= k

\* C3: power_abnegamax returns the abnegamax result of the requested depth when its
\* score is above -MAX_SCORE; otherwise, if abnegamax scores above -MAX_SCORE at a
\* depth of 1..depth-1, it returns the abnegamax result of the greatest such depth.
C3_PowerReturnsDeepestNonLosing ==
    IsSearch("power_abnegamax") =>
        \A tab \in {AbOutcomes(Depth)} :
           /\ Depth = 0 => (NonLosing(Outcome(AbAt(0))) => CallOutcome = Outcome(AbAt(0)))
           /\ (Depth >= 1 /\ NonLosing(tab[Depth])) => CallOutcome = tab[Depth]
           /\ (Depth >= 1 /\ Losing(tab[Depth]) /\ NonLosingRetries(tab) # {})
                 => CallOutcome = tab[Greatest(NonLosingRetries(tab))]

\* A power_abnegamax call whose requested depth and the next shallower one both
\* lose and which returned the non-losing result of a still shallower depth.
C3_Witness ==
    /\ IsSearch("power_abnegamax") /\ call.exc = "none" /\ Depth >= 3
    /\ \A tab \in {AbOutcomes(Depth)} :
          /\ Losing(tab[Depth]) /\ Losing(tab[Depth - 1])
          /\ NonLosingRetries(tab) # {}
    /\ call.ret.score > -MAX_SCORE /\ call.ret.move # None

\* C4: when abnegamax loses at the requested depth and at every depth of
\* depth-1..1, power_abnegamax returns the (score, move) pair of the abnegamax call
\* of the requested depth.
C4_PowerReturnsRequestedDepthWhenAllLose ==
    (IsSearch("power_abnegamax") /\ Depth >= 1) =>
        \A tab \in {AbOutcomes(Depth)} :
           (\A k \in 1..Depth : Losing(tab[k])) => CallOutcome = tab[Depth]

\* A power_abnegamax call of depth >= 2 on a board where the game is not over and
\* every depth of depth..1 loses.
C4_Witness ==
    /\ IsSearch("power_abnegamax") /\ Depth >= 2
    /\ is_game_over(call.pre) = 0
    /\ call.exc = "none" /\ call.ret.move # None
    /\ \A tab \in {AbOutcomes(Depth)} : \A k \in 1..Depth : Losing(tab[k])

OneByOne(b) == b.rows = 1 /\ b.columns = 1

NoLegalMoves(b) == \A p \in Players : get_legal_moves(b, p) = <<>>

PowerForActive ==
    IsSearch("power_abnegamax") /\ OneByOne(call.pre) /\ Player = call.pre.active_player

\* C5 as stated: on a 1x1 board neither player has a legal move, and
\* power_abnegamax called for the active player returns -MAX_SCORE at every depth.
C5_OneByOneIsLostForActive ==
    /\ OneByOne(game) => NoLegalMoves(game)
    /\ PowerForActive => (call.exc = "none" /\ call.ret.score = -MAX_SCORE)

\* C5 amended: on a 1x1 board whose cell is blocked neither player has a legal
\* move, and power_abnegamax called for the active player returns -MAX_SCORE and
\* no move at every depth.
C5_BlockedOneByOneIsLostForActive ==
    /\ (OneByOne(game) /\ box_blocked(game, 0, 0)) => NoLegalMoves(game)
    /\ (PowerForActive /\ box_blocked(call.pre, 0, 0))
          => CallOutcome = <<"none", -MAX_SCORE, None>>

\* power_abnegamax at the largest depth on the 1x1 board after its only move.
C5_Witness ==
    PowerForActive /\ box_blocked(call.pre, 0, 0) /\ Depth = MaxDepth

\* C6: on every board reached from a fresh board by legal moves, negamax, abnegamax
\* and power_abnegamax return a (score, move) pair at every depth and with each
\* heuristic: no exception but the blocked-destination assertion is raised.
C6_SearchAlwaysReturns ==
    call.op \in SearchOps => call.exc \in {"none", "AssertionError"}

\* C7: a negamax, abnegamax or power_abnegamax call leaves the board passed in as
\* it was, and no board of the recursion is changed by the exploration of its
\* children.
C7_SearchLeavesBoardUnchanged ==
    call.op \in SearchOps => (BoardEq(game, call.pre) /\ call.ret.kept)

\* A search of depth >= 2 that explored children and returned a move.
C7_Witness ==
    /\ call.op \in SearchOps /\ call.exc = "none"
    /\ Depth >= 2 /\ call.ret.move # None
    /\ Len(get_legal_moves(call.pre, 0)) >= 2

\* C8: make_move_copy of a legal move leaves the original board unchanged and
\* returns a board equal to the one make_move of that move leaves of an equal clone.
C8_CopyEqualsMoveOnClone ==
    call.op = "make_move_copy" =>
        /\ BoardEq(game, call.pre)
        /\ call.exc = "none"
        /\ BoardEq(call.ret, make_move(pickle_copy(call.pre), call.args[1], call.args[2]).self)

\* make_move_copy by a player that already has a position.
C8_Witness ==
    /\ call.op = "make_move_copy"
    /\ call.pre.players_position[call.pre.active_player] # None
    /\ call.ret.players_position[call.pre.active_player] = call.args

\* C9: get_legal_moves, for the active player by default and for a named player,
\* never returns a cell for which box_blocked is true.
C9_LegalMovesNeverBlocked ==
    \A p \in {0} \cup Players :
       \A m \in Cells(get_legal_moves(game, p)) : ~box_blocked(game, m[1], m[2])

InGrid(b, x, y) == 0 <= x /\ x < b.columns /\ 0 <= y /\ y < b.rows

\* The next cell of some ray from the position of player p is blocked.
BlockedNeighbour(b, p) ==
    \E i \in 1..Len(dirs_deltas) :
       LET x == b.players_position[p][1] + dirs_deltas[i][1]
           y == b.players_position[p][2] + dirs_deltas[i][2]
       IN  InGrid(b, x, y) /\ box_blocked(b, x, y)

\* After pre-blocking and moves: a placed player with legal moves and a blocked
\* cell next to it.
C9_Witness ==
    /\ \E i \in 1..Len(game.board) : game.board[i] = OrMask(BOX_BLOCK)
    /\ \E p \in Players :
          /\ game.players_position[p] # None
          /\ get_legal_moves(game, p) # <<>>
          /\ BlockedNeighbour(game, p)

\* The cell k steps from loc along delta d.
Step(loc, d, k) == <<loc[1] + k * d[1], loc[2] + k * d[2]>>

\* Cell c is in the grid, k >= 1 steps from loc along one of the 8 deltas, and c and
\* every cell between loc and c are unblocked.
ClearRayTo(b, loc, c) ==
    \E i \in 1..Len(dirs_deltas), k \in 1..(b.rows + b.columns) :
       /\ c = Step(loc, dirs_deltas[i], k)
       /\ \A j \in 1..k :
             LET s == Step(loc, dirs_deltas[i], j)
             IN  InGrid(b, s[1], s[2]) /\ ~box_blocked(b, s[1], s[2])

\* C10: for a player with a recorded position, get_legal_moves returns, each
\* exactly once, exactly the cells of the grid reached from the position along one
\* of the 8 rays with the cell and every cell before it unblocked.
C10_LegalMovesAreClearRays ==
    \A p \in Players :
       game.players_position[p] # None =>
          LET moves == get_legal_moves(game, p)
          IN  /\ Cardinality(Cells(moves)) = Len(moves)
              /\ Cells(moves)
                   = {c \in GridCells(game) : ClearRayTo(game, game.players_position[p], c)}

\* A placed player with a legal cell, then a blocked cell, then an unblocked cell
\* of the grid on one ray.
C10_Witness ==
    \E p \in Players :
       /\ game.players_position[p] # None
       /\ \E i \in 1..Len(dirs_deltas) :
             LET c1 == Step(game.players_position[p], dirs_deltas[i], 1)
                 c2 == Step(game.players_position[p], dirs_deltas[i], 2)
                 c3 == Step(game.players_position[p], dirs_deltas[i], 3)
             IN  /\ InGrid(game, c3[1], c3[2])
                 /\ ~box_blocked(game, c1[1], c1[2])
                 /\ box_blocked(game, c2[1], c2[2])
                 /\ ~box_blocked(game, c3[1], c3[2])

\* The unblocked cells of the grid.
Unblocked(b) == {c \in GridCells(b) : ~box_blocked(b, c[1], c[2])}

\* The list moves holds exactly the unblocked cells of b, each once.
ExactlyUnblocked(b, moves) ==
    Cells(moves) = Unblocked(b) /\ Len(moves) = Cardinality(Unblocked(b))

\* The 3 x 3 board after player 1 has been placed on its centre.
CentreTaken == make_move(Board(3, 3), 1, 1).self

\* C11: for a player without a recorded position (named, or active and taken by
\* default) get_legal_moves returns exactly the unblocked cells of the grid,
\* wherever the other player stands: the 9 cells of a fresh 3 x 3 board, and the 8
\* cells around the centre for player 2 once player 1 stands on the centre.
C11_UnplacedPlayerMayPlaceAnywhere ==
    /\ \A p \in Players :
          player_pos(game, p) = None => ExactlyUnblocked(game, get_legal_moves(game, p))
    /\ player_pos(game, game.active_player) = None
          => ExactlyUnblocked(game, get_legal_moves(game, 0))
    /\ game = Board(3, 3) => Len(get_legal_moves(game, 0)) = 9
    /\ game = CentreTaken
          => /\ Len(get_legal_moves(game, PLAYER2)) = 8
             /\ Cells(get_legal_moves(game, PLAYER2)) = GridCells(game) \ {<<1, 1>>}

\* Player 1 has just been placed on the centre of a 3 x 3 board without pre-blocked
\* cells, and player 2 has no position.
C11_Witness ==
    /\ call.op = "make_move" /\ call.args = <<1, 1>>
    /\ game = CentreTaken
    /\ player_pos(game, PLAYER2) = None

\* The flat indices of the blocked cells of b.
BlockedCells(b) == {i \in 1..Len(b.board) : MaskSet(b.board[i])}

\* Board a is a later state of the grid of b: same dimensions, and every cell
\* blocked in b is blocked in a.
KeepsBlocked(b, a) ==
    /\ a.rows = b.rows /\ a.columns = b.columns /\ Len(a.board) = Len(b.board)
    /\ BlockedCells(b) \subseteq BlockedCells(a)

\* The positions gen_random_blocked_boxes may draw for num boxes on b.
Draws(b, num) == [1..num -> 0..(b.rows * b.columns - 1)]

\* C12: every operation keeps every blocked cell blocked: each make_move,
\* make_move_copy and gen_random_blocked_boxes step leaves the cells blocked
\* before it blocked, the board make_move_copy returns has the cells of the
\* original blocked, and gen_random_blocked_boxes called on any board reached
\* (also after moves) keeps its blocked cells whatever positions it draws.
C12_BlockedStaysBlocked ==
    /\ [](\A num \in 0..MaxBlocked : \A picks \in Draws(game, num) :
             KeepsBlocked(game, block_positions(game, picks, 1)))
    /\ [][/\ KeepsBlocked(game, game')
          /\ call'.op = "make_move_copy" => KeepsBlocked(game, call'.ret)]_vars

\* A move by a player that had a position, on a board with a pre-blocked cell:
\* the cell left behind and the pre-blocked cell are blocked after the move.
C12_Witness ==
    /\ call.op = "make_move" /\ call.exc = "none"
    /\ player_pos(call.pre, call.pre.active_player) # None
    /\ player_pos(call.pre, call.pre.active_player) # player_pos(game, call.pre.active_player)
    /\ LET old == player_pos(call.pre, call.pre.active_player)
       IN  box_blocked(game, old[1], old[2])
    /\ \E i \in 1..Len(game.board) : game.board[i] = OrMask(BOX_BLOCK)

\* Board a has the active and inactive identifiers of board b exchanged.
Swapped(b, a) ==
    a.active_player = b.inactive_player /\ a.inactive_player = b.active_player

\* On b, to which n moves have been applied, the active and the inactive player
\* are the two players, and player 1 is active exactly when n is even.
TurnOf(b, n) ==
    /\ {b.active_player, b.inactive_player} = Players
    /\ b.active_player # b.inactive_player
    /\ b.active_player = PLAYER1 <=> n % 2 = 0

\* C13: the active and the inactive identifier are always the two distinct
\* players; a fresh board has player 1 active; every accepted make_move swaps them
\* on the board and every accepted make_move_copy on the board returned; player 1
\* is active exactly when an even number of moves has been applied.
C13_ActiveAndInactiveSwap ==
    /\ TurnOf(game, moves_made)
    /\ moves_made = 0 => (game.active_player = PLAYER1 /\ game.inactive_player = PLAYER2)
    /\ (call.op = "make_move" /\ call.exc = "none") => Swapped(call.pre, game)
    /\ (call.op = "make_move_copy" /\ call.exc = "none")
          => (Swapped(call.pre, call.ret) /\ TurnOf(call.ret, moves_made + 1))

\* The third accepted move of a game: player 2 is active again.
C13_Witness ==
    /\ call.op = "make_move" /\ call.exc = "none"
    /\ moves_made = 3
    /\ game.active_player = PLAYER2 /\ call.pre.active_player = PLAYER1

\* On board b player p stands nowhere or on a blocked cell of the grid.
StandsOnBlocked(b, p) ==
    player_pos(b, p) # None =>
       (/\ InGrid(b, player_pos(b, p)[1], player_pos(b, p)[2])
        /\ box_blocked(b, player_pos(b, p)[1], player_pos(b, p)[2]))

\* C14: the recorded position of each player is the destination of that player's
\* most recent accepted move (None before its first move) and, once set, a cell
\* for which box_blocked is true; the same holds of the board make_move_copy
\* returns, on which the mover stands on the destination passed.
C14_PositionIsLastDestinationAndBlocked ==
    /\ \A p \in Players :
          player_pos(game, p) = last_dest[p] /\ StandsOnBlocked(game, p)
    /\ (call.op = "make_move_copy" /\ call.exc = "none") =>
          \A p \in Players :
             /\ player_pos(call.ret, p)
                  = IF p = call.pre.active_player THEN call.args ELSE last_dest[p]
             /\ StandsOnBlocked(call.ret, p)

\* After pre-blocking, a player that had a position has just moved to another
\* cell while the other player stands where its own last move took it.
C14_Witness ==
    /\ call.op = "make_move" /\ call.exc = "none" /\ moves_made >= 3
    /\ \E i \in 1..Len(game.board) : game.board[i] = OrMask(BOX_BLOCK)
    /\ \A p \in Players : player_pos(game, p) # None
    /\ player_pos(game, call.pre.active_player) = call.args
    /\ player_pos(call.pre, call.pre.active_player) # call.args

\* Player p has at least one legal move on b.
Mobile(b, p) == Len(get_legal_moves(b, p)) >= 1

\* C15: is_game_over returns the inactive player whenever the active player has
\* no legal move (also when neither player has one), the active player when the
\* active player has a legal move and the inactive player has none, and the
\* no-winner value (False) exactly when both players have a legal move.
C15_GameOverPrecedence ==
    /\ ~Mobile(game, game.active_player) => is_game_over(game) = game.inactive_player
    /\ (Mobile(game, game.active_player) /\ ~Mobile(game, game.inactive_player))
          => is_game_over(game) = game.active_player
    /\ is_game_over(game) = 0
          <=> (Mobile(game, game.active_player) /\ Mobile(game, game.inactive_player))

\* Both players are placed and neither has a legal move after a move; the winner
\* returned is the inactive player, the one that moved last.
C15_Witness ==
    /\ call.op = "make_move" /\ call.exc = "none"
    /\ \A p \in Players : player_pos(game, p) # None /\ ~Mobile(game, p)
    /\ is_game_over(game) = game.inactive_player
    /\ game.inactive_player = call.pre.active_player

HasCells(b) == b.rows > 0 /\ b.columns > 0

BothImmobilized(b) == \A p \in Players : ~Mobile(b, p)

\* C16 as stated: in every state reached from a fresh board (with at least one
\* cell) by alternating legal moves, at most one of the two players has no legal
\* move.
C16_AtMostOneImmobilized ==
    HasCells(game) => ~BothImmobilized(game)

\* C16 amended: on a board with at least one cell the two players are without a
\* legal move at once only directly after an accepted move, and only if the
\* player that did not move had, before that move, no legal move other than the
\* destination of the move.
C16_BothImmobilizedOnlyByLastMove ==
    (HasCells(game) /\ BothImmobilized(game)) =>
        /\ call.op = "make_move" /\ call.exc = "none"
        /\ Cells(get_legal_moves(call.pre, call.pre.inactive_player)) \subseteq {call.args}

\* A move made while both players had a legal move took the only legal move of
\* the other player and left the mover without one: neither player can move.
C16_Witness ==
    /\ HasCells(game) /\ BothImmobilized(game)
    /\ call.op = "make_move" /\ is_game_over(call.pre) = 0
    /\ \A p \in Players : player_pos(call.pre, p) # None
    /\ get_legal_moves(call.pre, call.pre.inactive_player) = <<call.args>>

\* The last operation was a make_move or make_move_copy to a cell that was blocked.
MovedToBlocked ==
    /\ call.op \in {"make_move", "make_move_copy"}
    /\ box_blocked(call.pre, call.args[1], call.args[2])

\* C17: make_move and make_move_copy to a cell that is already blocked raise the
\* assertion fault, return nothing, and leave the board as it was: the cell
\* states, both positions and the active and inactive identifiers.
C17_BlockedDestinationFaults ==
    MovedToBlocked =>
        /\ call.exc = "AssertionError" /\ call.ret = None
        /\ game.board = call.pre.board
        /\ game.players_position = call.pre.players_position
        /\ game.active_player = call.pre.active_player
        /\ game.inactive_player = call.pre.inactive_player
        /\ BoardEq(game, call.pre)

\* make_move by a placed player to the cell of the other player.
C17_Witness ==
    /\ MovedToBlocked /\ call.op = "make_move"
    /\ player_pos(call.pre, call.pre.active_player) # None
    /\ call.args = player_pos(call.pre, call.pre.inactive_player)

\* C18: no Board object has a non-positive row count or column count, and none is
\* without cells: construction with such dimensions faults instead of returning.
C18_NonPositiveDimensionsFault ==
    game.rows > 0 /\ game.columns > 0 /\ Len(game.board) > 0

\* The last operation was a call of heuristic sf with the winner and player given.
Scored == call.op = "score_func"
ScoredSf == call.args[1]
ScoredWinner == call.args[2]
ScoredPlayer == call.args[3]

\* C19: each of the four heuristics, called with a winner, returns +MAX_SCORE when
\* the winner is the player argument and -MAX_SCORE when it is the other player,
\* whatever the board holds (and without raising).
C19_TerminalScoreIsPlusOrMinusMax ==
    (Scored /\ ScoredWinner # 0) =>
        /\ call.exc = "none"
        /\ ScoredWinner = ScoredPlayer => call.ret = MAX_SCORE
        /\ ScoredWinner # ScoredPlayer => call.ret = -MAX_SCORE

\* A heuristic that reads positions is called for player 1 with winner player 2
\* on a pre-blocked board on which a player has no position and both can move.
C19_Witness ==
    /\ Scored /\ ScoredSf = 4 /\ ScoredWinner = PLAYER2 /\ ScoredPlayer = PLAYER1
    /\ call.ret = -MAX_SCORE
    /\ is_game_over(call.pre) = 0
    /\ player_pos(call.pre, PLAYER2) = None
    /\ \E i \in 1..Len(call.pre.board) : call.pre.board[i] = OrMask(BOX_BLOCK)

\* C20: each of the four heuristics, called without a winner on a board on which
\* the game is not over, returns a score strictly between -MAX_SCORE and
\* MAX_SCORE, whatever the dimensions of the board.
C20_HeuristicScoreBelowMax ==
    (Scored /\ ScoredWinner = 0 /\ call.exc = "none" /\ is_game_over(call.pre) = 0)
        => (-MAX_SCORE < call.ret /\ call.ret < MAX_SCORE)

\* Board b is as Board(rows, columns) constructs it.
Fresh(b) == b = Board(b.rows, b.columns)

\* C21: gen_random_blocked_boxes(min, max) called on a fresh board with
\* 0 <= min <= max <= rows * columns returns and leaves at least min and at most
\* max cells blocked.
C21_BlockedCountWithinMinAndMax ==
    [][(/\ Fresh(game)
        /\ call'.op = "gen_random_blocked_boxes"
        /\ call'.args[2] <= game.rows * game.columns)
          => /\ call'.exc = "none"
             /\ call'.args[1] <= Cardinality(BlockedCells(game'))
             /\ Cardinality(BlockedCells(game')) <= call'.args[2]]_vars

\* The last operation was a comparison of the board with the board Other.
Compared == call.op = "__eq__"
Other == call.args[1]

\* The flat cell-state sequences of a and b match.
SameCells(a, b) ==
    /\ Len(a.board) = Len(b.board)
    /\ \A i \in 1..Len(a.board) : a.board[i] = b.board[i]

\* Both player positions and the active and inactive identifiers of a and b match.
SamePlayers(a, b) ==
    /\ \A p \in Players : player_pos(a, p) = player_pos(b, p)
    /\ a.active_player = b.active_player
    /\ a.inactive_player = b.inactive_player

SameDimensions(a, b) == a.rows = b.rows /\ a.columns = b.columns

\* C22 as stated: two boards compare equal if and only if their flat cell-state
\* sequences, both player positions and their active and inactive identifiers
\* match, whatever their other attributes.
C22_EqualIffCellsAndPlayersMatch ==
    Compared => (call.ret <=> (SameCells(call.pre, Other) /\ SamePlayers(call.pre, Other)))

\* C22 amended: two boards compare equal if and only if their rows and columns
\* attributes, their flat cell-state sequences, both player positions and their
\* active and inactive identifiers match.
C22_EqualIffDimensionsCellsAndPlayersMatch ==
    Compared => (call.ret <=> (/\ SameDimensions(call.pre, Other)
                               /\ SameCells(call.pre, Other)
                               /\ SamePlayers(call.pre, Other)))

\* Two boards on each of which both players were placed compare equal.
C22_Witness ==
    /\ Compared /\ call.ret
    /\ moves_made = 2
    /\ \A p \in Players : player_pos(Other, p) # None

\* The negated scores negamax gets back for the legal moves of b, in
\* get_legal_moves order, from its recursive calls of depth - 1.
ChildScores(b, depth, player, sf) ==
    [i \in 1..Len(get_legal_moves(b, 0)) |->
       LET m == get_legal_moves(b, 0)[i]
       IN  -negamax(make_move_copy(b, m[1], m[2]).ret, depth - 1, player, sf).score]

\* The first index of scores holding the greatest of its values.
FirstBest(scores) ==
    CHOOSE i \in 1..Len(scores) :
       /\ \A j \in 1..Len(scores) : scores[j] <= scores[i]
       /\ \A j \in 1..(i - 1) : scores[j] < scores[i]

\* C23: a negamax call that returns on a board on which the game is not over, with
\* depth >= 1, returns the first move of get_legal_moves() whose negated child
\* score is the greatest over all legal moves, together with that score; the move
\* is a member of get_legal_moves(); and negamax returns no move (None) exactly
\* when the game is over or depth is 0.
C23_NegamaxReturnsFirstBestMove ==
    (IsSearch("negamax") /\ call.exc = "none") =>
        /\ call.ret.move = None <=> (is_game_over(call.pre) # 0 \/ Depth = 0)
        /\ (is_game_over(call.pre) = 0 /\ Depth >= 1) =>
              \A scores \in {ChildScores(call.pre, Depth, Player, Sf)} :
                 /\ call.ret.move = get_legal_moves(call.pre, 0)[FirstBest(scores)]
                 /\ call.ret.score = scores[FirstBest(scores)]
                 /\ call.ret.move \in Cells(get_legal_moves(call.pre, 0))

\* A negamax call of depth >= 2 in which several moves share the greatest score, a
\* move before them scores less, and the first of them is returned.
C23_Witness ==
    /\ IsSearch("negamax") /\ call.exc = "none" /\ Depth >= 2
    /\ is_game_over(call.pre) = 0
    /\ \A scores \in {ChildScores(call.pre, Depth, Player, Sf)} :
          /\ FirstBest(scores) > 1
          /\ \E j \in (FirstBest(scores) + 1)..Len(scores) : scores[j] = scores[FirstBest(scores)]
          /\ call.ret.move = get_legal_moves(call.pre, 0)[FirstBest(scores)]

\* The last operation was a negamax or abnegamax call on a board on which the
\* game is over.
SearchedGameOver ==
    /\ (IsSearch("negamax") \/ IsSearch("abnegamax"))
    /\ is_game_over(call.pre) # 0

\* C24: on a board on which the game is over, negamax and abnegamax return, at
\* every depth and for either player argument, no move and the score +MAX_SCORE
\* if the active player of the board is the winner and -MAX_SCORE if it is the
\* loser.
C24_TerminalValueIsActivePlayersView ==
    SearchedGameOver =>
        /\ call.exc = "none" /\ call.ret.move = None
        /\ is_game_over(call.pre) = call.pre.active_player => call.ret.score = MAX_SCORE
        /\ is_game_over(call.pre) = call.pre.inactive_player => call.ret.score = -MAX_SCORE

\* An abnegamax call of depth >= 1 for the inactive player on a board that the
\* active player has won: both players are placed and only the active one can move.
C24_Witness ==
    /\ SearchedGameOver /\ IsSearch("abnegamax") /\ Depth >= 1
    /\ Player = call.pre.inactive_player
    /\ is_game_over(call.pre) = call.pre.active_player
    /\ \A p \in Players : player_pos(call.pre, p) # None
    /\ call.ret.score = MAX_SCORE

\* The board make_move_copy returns for move m of b.
After(b, m) == make_move_copy(b, m[1], m[2]).ret

\* The legal-move count of player p minus that of the other player on b.
MobilityFor(b, p) ==
    Len(get_legal_moves(b, p))
      - Len(get_legal_moves(b, IF p = PLAYER1 THEN PLAYER2 ELSE PLAYER1))

\* The last operation was negamax(board, 1, P, score_func2) for the active player
\* P of a board on which both players are placed, the game is not over and no
\* legal move of P ends the game.
MobilitySearched ==
    /\ IsSearch("negamax") /\ Depth = 1 /\ Sf = 2
    /\ Player = call.pre.active_player
    /\ \A p \in Players : player_pos(call.pre, p) # None
    /\ is_game_over(call.pre) = 0
    /\ \A m \in Cells(get_legal_moves(call.pre, 0)) : is_game_over(After(call.pre, m)) = 0

\* C25: negamax(board, 1, P, mobility heuristic), for the active player P of a
\* board with both players placed and no legal move of P ending the game, returns
\* a legal move after which P's legal-move count minus the opponent's is the
\* greatest over all legal moves of P.
C25_DepthOneMaximizesMobility ==
    MobilitySearched =>
        /\ call.exc = "none"
        /\ call.ret.move \in Cells(get_legal_moves(call.pre, 0))
        /\ \A m \in Cells(get_legal_moves(call.pre, 0)) :
              MobilityFor(After(call.pre, call.ret.move), Player)
                >= MobilityFor(After(call.pre, m), Player)

\* C26: abnegamax called with the widest window ends as negamax does on the same
\* board, depth, player and heuristic (the same (score, move) pair, or the same
\* exception), also when alpha >= beta breaks are taken at inner nodes of the
\* search.
C26_AbnegamaxEqualsNegamaxWithCutoffs ==
    (IsSearch("abnegamax") /\ WidestWindow)
        => CallOutcome = Outcome(negamax(call.pre, Depth, Player, Sf))

\* An abnegamax call of depth >= 2 during which an alpha >= beta break was taken,
\* on a board where the mover had a choice of at least two moves, returned a move.
C26_Witness ==
    /\ IsSearch("abnegamax") /\ WidestWindow /\ call.ret.cut
    /\ call.exc = "none" /\ Depth >= 2
    /\ Len(get_legal_moves(call.pre, 0)) >= 2
    /\ call.ret.move # None

\* The outcome of abnegamax with the widest window at depth k on the board, for
\* the player and with the heuristic of the call recorded in call.
WidestAt(k) == Outcome(abnegamax(call.pre, k, Player, -Inf, Inf, Sf))

\* An abnegamax call with the widest window that returns -MAX_SCORE at depth k
\* returns -MAX_SCORE on the same board at every depth greater than k.
LossStaysLoss ==
    (IsSearch("abnegamax") /\ WidestWindow /\ Losing(CallOutcome))
        => \A d \in (Depth + 1)..(MaxDepth + 1) : Losing(WidestAt(d))

\* When abnegamax loses at the depth of a power_abnegamax call, the depths of its
\* retries, depth-1..1, at which abnegamax scores above -MAX_SCORE are the depths
\* 1..j for some j: below such a depth abnegamax scores above -MAX_SCORE too.
NonLosingRetriesAreInitialSegment ==
    (IsSearch("power_abnegamax") /\ WidestWindow /\ Depth >= 1) =>
        \A tab \in {AbOutcomes(Depth)} :
           Losing(tab[Depth]) =>
              \A k \in NonLosingRetries(tab) : \A j \in 1..(k - 1) : NonLosing(tab[j])

\* C27: a loss is monotone in depth: abnegamax with the widest window, having
\* returned -MAX_SCORE at depth k on a board, returns -MAX_SCORE on it at every
\* greater depth, and so the depths at which the retries of power_abnegamax are
\* non-losing form an initial segment 1..j.
C27_LossIsMonotoneInDepth ==
    LossStaysLoss /\ NonLosingRetriesAreInitialSegment

\* Player p has a recorded position and no legal move on b.
Immobilized(b, p) == player_pos(b, p) # None /\ ~Mobile(b, p)

\* Board a, reached from b by a move, reports the winner b reports, and the
\* players immobilized on b have no legal move on a.
StaysWon(b, a) ==
    /\ is_game_over(b) # 0 => is_game_over(a) = is_game_over(b)
    /\ \A p \in Players : Immobilized(b, p) => Immobilized(a, p)

\* C28: once is_game_over reports a winner W, every later state of the game
\* reports W: each accepted move of get_legal_moves(), made in place or on a copy,
\* leads from a board with winner W to a board with winner W, and a placed player
\* without a legal move has none after it.
C28_WinnerNeverChanges ==
    /\ \A W \in Players : [](is_game_over(game) = W => [](is_game_over(game) = W))
    /\ [][/\ (call'.op = "make_move" /\ call'.exc = "none") => StaysWon(game, game')
          /\ (call'.op = "make_move_copy" /\ call'.exc = "none")
                => StaysWon(game, call'.ret)]_vars

\* A move made by the winner after the game was over: the other player, placed,
\* had no legal move before it and has none after it, and the winner is the same.
C28_Witness ==
    /\ call.op = "make_move" /\ call.exc = "none"
    /\ is_game_over(call.pre) = call.pre.active_player
    /\ Immobilized(call.pre, call.pre.inactive_player)
    /\ Immobilized(game, call.pre.inactive_player)
    /\ is_game_over(game) = call.pre.active_player

\* The number of blocked cells of b.
BlockedCount(b) == Cardinality(BlockedCells(b))

\* C29: every accepted make_move raises the number of blocked cells by exactly
\* one; the number of moves accepted on a board never exceeds its number of
\* blocked cells nor its number of cells, rows * columns; and every game in which
\* the active player makes a legal move while it has one reaches a state in
\* which is_game_over returns a winner.
C29_PlayTerminates ==
    /\ [](/\ moves_made <= BlockedCount(game)
          /\ BlockedCount(game) <= Len(game.board)
          /\ HasCells(game) => moves_made <= game.rows * game.columns)
    /\ [][(call'.op = "make_move" /\ call'.exc = "none")
             => BlockedCount(game') = BlockedCount(game) + 1]_vars
    /\ <>(is_game_over(game) # 0)

\* A game in which as many moves were accepted as the board has cells, four at
\* least, and which is over.
C29_Witness ==
    /\ call.op = "make_move" /\ call.exc = "none"
    /\ moves_made = game.rows * game.columns /\ moves_made >= 4
    /\ BlockedCount(game) = Len(game.board)
    /\ is_game_over(game) # 0

BothPlaced(b) == \A p \in Players : player_pos(b, p) # None

\* The Manhattan distance between the positions of the two players of b.
PlayerDistance(b) ==
    manhattan_distance(player_pos(b, PLAYER1)[1], player_pos(b, PLAYER1)[2],
                       player_pos(b, PLAYER2)[1], player_pos(b, PLAYER2)[2])

\* On b the two players stand on different cells, and score_func4 without a
\* winner returns by its branch for a distance above 0.
StandApart(b) ==
    /\ player_pos(b, PLAYER1) # player_pos(b, PLAYER2)
    /\ PlayerDistance(b) >= 1
    /\ \A p \in Players :
          score_func4(b, 0, p) = Val(inv_scaled(PlayerDistance(b), b.columns * b.rows))

\* C30: in every state reached by accepted moves (to any unblocked cell) in which
\* both players have a recorded position, the two positions are different cells,
\* their Manhattan distance is at least 1, and the chase heuristic does not take
\* its zero-distance branch; the same holds of the board make_move_copy returns.
C30_PlayersStandOnDifferentCells ==
    /\ BothPlaced(game) => StandApart(game)
    /\ (call.op = "make_move_copy" /\ call.exc = "none" /\ BothPlaced(call.ret))
          => StandApart(call.ret)

\* After three or more accepted moves the player that moved last stands next to
\* the other player, on a cell that make_move accepted.
C30_Witness ==
    /\ call.op = "make_move" /\ call.exc = "none" /\ moves_made >= 3
    /\ BothPlaced(game)
    /\ PlayerDistance(game) = 1
    /\ player_pos(game, call.pre.active_player) = call.args

\* The last operation was a make_move or make_move_copy by a player that had a
\* position, to a cell that was unblocked and not one of get_legal_moves().
MovedOffRay ==
    /\ call.op \in {"make_move", "make_move_copy"}
    /\ player_pos(call.pre, call.pre.active_player) # None
    /\ ~box_blocked(call.pre, call.args[1], call.args[2])
    /\ call.args \notin Cells(get_legal_moves(call.pre, 0))

\* Board a is board b with its active player moved to cell c: c is the position
\* of the mover and is blocked with the mover's mark, every other cell and the
\* position of the other player are as on b, and the two identifiers are swapped.
MovedTo(b, a, c) ==
    /\ SameDimensions(a, b) /\ Len(a.board) = Len(b.board)
    /\ a.board[offset(b, c[1], c[2]) + 1] = b.active_player + BOX_BLOCKED_MASK
    /\ \A i \in 1..Len(b.board) : i # offset(b, c[1], c[2]) + 1 => a.board[i] = b.board[i]
    /\ player_pos(a, b.active_player) = c
    /\ player_pos(a, b.inactive_player) = player_pos(b, b.inactive_player)
    /\ Swapped(b, a)

\* C31: make_move and make_move_copy check only that the destination is
\* unblocked: called by a player that has a position with an unblocked cell that
\* is not one of get_legal_moves(), they raise nothing and apply the move as they
\* apply a legal one, make_move on the board and make_move_copy on the copy it
\* returns, leaving the original as it was.
C31_UnblockedDestinationOffRayAccepted ==
    MovedOffRay =>
        /\ call.exc = "none"
        /\ call.op = "make_move" => MovedTo(call.pre, game, call.args)
        /\ call.op = "make_move_copy"
              => (BoardEq(game, call.pre) /\ MovedTo(call.pre, call.ret, call.args))

\* make_move by a placed player, with the other player placed too, to an
\* unblocked cell that lies behind a blocked cell or off every ray.
C31_Witness ==
    /\ MovedOffRay /\ call.op = "make_move" /\ call.exc = "none"
    /\ BothPlaced(call.pre)
    /\ player_pos(game, call.pre.active_player) = call.args
    /\ moves_made >= 3

====
